---------------------------- MODULE Spec2Model ----------------------------
(***************************************************************************)
(* State-machine model of the Bingo backend (src/backend/main.py): the     *)
(* in-memory game registry GAMES, the auto-draw control table AUTO, the    *)
(* request handlers and the background auto-draw threads.                  *)
(*                                                                         *)
(* Every `with lock:` block of the source is one atomic action: the lock   *)
(* is a plain mutex, nothing blocks inside a block, so the blocks are the  *)
(* units of interleaving.  A handler that takes the lock twice             *)
(* (create_game, set_auto_draw) is two actions with the call in `pending`  *)
(* in between; the scheduler loop is one action per block plus the two     *)
(* outcomes of its timed wait.  SpecLock makes the entry of a block a step *)
(* of its own, to check the lock discipline itself.                        *)
(*                                                                         *)
(* The program has no notion of having shut down: stop_all_auto and the   *)
(* handlers can run in any order, and every specification lets them.      *)
(*                                                                         *)
(* What a handler returns is read by the framework after the handler has   *)
(* left its block; draw_number returns its game's draw list itself, so its *)
(* response is delivered in a later step (Serialise).                      *)
(*                                                                         *)
(* Identifiers (user ids, game tokens) are opaque strings in the source    *)
(* and natural numbers here.  Python lists indexed from 0 (card, marks)    *)
(* are functions on 0..24; the draw list is a sequence.                    *)
(***************************************************************************)
EXTENDS Integers, Sequences, FiniteSets, Bags, TLC

VARIABLES
    GAMES,      \* gid -> GameState                       (main.py:51)
    AUTO,       \* gid -> [stop, thread, interval]        (main.py:54)
    threads,    \* sequence of auto-draw threads ever started
    stopset,    \* the threading.Event objects whose flag is set
    pending,    \* bag of handler calls between two lock blocks
    down,       \* history: stop_all_auto has run (the program has no such flag)
    lock,       \* the tasks holding `lock`                (main.py:30)
    outbox,     \* draw_number results returned and not yet serialised
    resp        \* what the last step returned to its caller

vars == <<GAMES, AUTO, threads, stopset, pending, down, lock, outbox, resp>>

-----------------------------------------------------------------------------
(* Program constants *)

\* card[12] = None: the FREE centre cell carries no number
None == 0
\* index of the FREE centre cell
FreeIndex == 12
\* cells of a card, 5 x 5
CardCells == 25
\* numbers are drawn from 1..75, and a game is exhausted at 75 draws
MaxNumber == 75
\* numbers per column pool
ColumnWidth == 15
\* player cap of a game
PlayerCap == 400
\* display names are cut to 64 characters
NameCap == 64
\* interval create_game starts the scheduler with
DefaultInterval == 5
\* AutoReq.interval: Field(5, ge=2, le=60)
MinInterval == 2
MaxInterval == 60

(* Bounds of the model *)

\* games ever created
MaxGames == 1
\* auto-draw threads ever started
MaxThreads == 2
\* handler calls that may sit between their two lock blocks at once
MaxPending == 1
\* draw_number results that may wait to be serialised at once
MaxOutbox == 1
\* server threads that run request handlers at once
MaxWorkers == 2

-----------------------------------------------------------------------------
(* Helper functions, main.py:60-108 *)

Range(s) == {s[i] : i \in DOMAIN s}

\* list(range(1 + c * 15, 1 + c * 15 + 15))
ColumnPool(c) == (1 + c * ColumnWidth)..(c * ColumnWidth + ColumnWidth)

\* What random.shuffle + pool[:5] can leave in cols: for each column c, five
\* distinct numbers of that column's pool, in some order.
IsShuffle(cols) ==
    /\ DOMAIN cols = 0..4
    /\ \A c \in 0..4 :
          /\ DOMAIN cols[c] = 0..4
          /\ \A r \in 0..4 : cols[c][r] \in ColumnPool(c)
          /\ \A r, q \in 0..4 : r # q => cols[c][r] # cols[c][q]

\* make_card, given the outcome `cols` of the five shuffles:
\* card = [cols[c][r] for r in range(5) for c in range(5)]; card[12] = None
make_card(cols) ==
    [i \in 0..(CardCells - 1) |->
        IF i = FreeIndex THEN None ELSE cols[i % 5][i \div 5]]

\* new_marks: all False but the FREE cell
new_marks == [i \in 0..(CardCells - 1) |-> i = FreeIndex]

\* The list `lines` check_line_bingo builds: rows, then columns, then diagonals
BingoLines ==
    [r \in 0..4 |-> [c \in 0..4 |-> r * 5 + c]] @@
    [k \in 5..9 |-> [r \in 0..4 |-> r * 5 + (k - 5)]] @@
    (10 :> [j \in 0..4 |-> 6 * j]) @@
    (11 :> [j \in 0..4 |-> 4 + 4 * j])

\* Mutant: only the five rows are built
check_line_rows_only(marks) ==
    \E k \in 0..4 : \A j \in DOMAIN BingoLines[k] : marks[BingoLines[k][j]]

\* any(all(marks[i] for i in line) for line in lines)
check_line_bingo(marks) ==
    \E k \in DOMAIN BingoLines :
        \A j \in DOMAIN BingoLines[k] : marks[BingoLines[k][j]]

\* Every marked cell (except FREE) must be a number that has been drawn
marked_cells_are_valid(card, marks, draws) ==
    \A i \in DOMAIN marks :
        \/ ~marks[i]
        \/ i = FreeIndex
        \/ card[i] = None
        \/ card[i] \in Range(draws)

\* Mutant: the filter on draws is forgotten
remaining_unfiltered(draws) == [n \in 1..MaxNumber |-> n]

\* [n for n in range(1, 76) if n not in draws]
remaining_numbers(draws) ==
    LET NotDrawn(n) == n \notin Range(draws)
    IN  SelectSeq([n \in 1..MaxNumber |-> n], NotDrawn)

\* req.name[:64]
Truncate(name) ==
    IF Len(name) <= NameCap THEN name ELSE SubSeq(name, 1, NameCap)


-----------------------------------------------------------------------------
(* Records *)

\* PlayerState (main.py:33-38); joined_at is a timestamp nothing reads
PlayerState(name, cols) ==
    [name |-> Truncate(name), card |-> make_card(cols), marks |-> new_marks]

\* GameState as create_game builds it, the host already joined (main.py:242-258)
NewGame(host_id, host_name, cols) ==
    [host_id    |-> host_id,
     draws      |-> << >>,
     players    |-> (host_id :> PlayerState(host_name, cols)),
     winner_ids |-> << >>,
     closed     |-> FALSE]

\* dict.pop(key, None)
Pop(d, key) == [k \in DOMAIN d \ {key} |-> d[k]]

\* What a step hands back to its caller.  status is "ok" or the error kind:
\* NotFound = HTTP 404, Forbidden = 403, InvalidState = 400, InvalidArgument =
\* 422 (request-model validation).  A step that returns nothing to a caller
\* (a scheduler step, the first block of a two-block handler) leaves NoResp.
NoResp ==
    [op |-> "none", gid |-> 0, uid |-> 0, status |-> "none",
     on |-> FALSE, interval |-> 0, index |-> 0, marked |-> FALSE,
     valid |-> FALSE, next_number |-> 0, draws |-> << >>]

Reply(op, gid, uid, status) ==
    [NoResp EXCEPT !.op = op, !.gid = gid, !.uid = uid, !.status = status]

Errors == {"NotFound", "Forbidden", "InvalidState", "InvalidArgument"}

\* A call of start_auto_draw / stop_auto_draw that its handler has yet to make
Call(op, gid, uid, on, interval) ==
    [op |-> op, gid |-> gid, uid |-> uid, on |-> on, interval |-> interval]

-----------------------------------------------------------------------------
(* Initial state: the module has just been imported *)

Init ==
    /\ GAMES = << >>
    /\ AUTO = << >>
    /\ threads = << >>
    /\ stopset = {}
    /\ pending = EmptyBag
    /\ down = FALSE
    /\ lock = {}
    /\ outbox = {}
    /\ resp = NoResp

-----------------------------------------------------------------------------
(* Auto-draw worker and its control, main.py:114-174 *)

\* Mutant: the timed wait is made inside the first `with lock:` block
LoopTop_waiting_locked(t) ==
    /\ t \in DOMAIN threads
    /\ threads[t].pc = "top"
    /\ LET gid == threads[t].gid
       IN  IF gid \notin DOMAIN AUTO \/ gid \notin DOMAIN GAMES \/ GAMES[gid].closed
           THEN /\ AUTO' = Pop(AUTO, gid)
                /\ threads' = [threads EXCEPT ![t].pc = "done"]
                /\ lock' = {}
           ELSE /\ AUTO' = AUTO
                /\ threads' = [threads EXCEPT ![t].pc = "wait",
                                              ![t].stop = AUTO[gid].stop]
                /\ lock' = lock
    /\ resp' = NoResp
    /\ UNCHANGED <<GAMES, stopset, pending, down, outbox>>

\* First block of the loop, lines 117-125: read the control entry and the game
LoopTop(t) ==
    /\ t \in DOMAIN threads
    /\ threads[t].pc = "top"
    /\ LET gid == threads[t].gid
       IN  IF gid \notin DOMAIN AUTO \/ gid \notin DOMAIN GAMES \/ GAMES[gid].closed
           THEN /\ AUTO' = Pop(AUTO, gid)
                /\ threads' = [threads EXCEPT ![t].pc = "done"]
           ELSE /\ AUTO' = AUTO
                /\ threads' = [threads EXCEPT ![t].pc = "wait",
                                              ![t].stop = AUTO[gid].stop]
    /\ resp' = NoResp
    /\ UNCHANGED <<GAMES, stopset, pending, down, outbox>>
    /\ lock' = {}

\* stop.wait(timeout=max(2, interval)) returns True: the flag is set, line 127
WaitSignalled(t) ==
    /\ t \in DOMAIN threads
    /\ threads[t].pc = "wait"
    /\ threads[t].stop \in stopset
    /\ threads' = [threads EXCEPT ![t].pc = "signalled"]
    /\ resp' = NoResp
    /\ UNCHANGED <<GAMES, AUTO, stopset, pending, down, lock, outbox>>

\* Mutant: the thread sleeps for the interval and does not look at the flag
WaitTimeout_asleep(t) ==
    /\ t \in DOMAIN threads
    /\ threads[t].pc = "wait"
    /\ threads' = [threads EXCEPT ![t].pc = "timeout"]
    /\ resp' = NoResp
    /\ UNCHANGED <<GAMES, AUTO, stopset, pending, down, lock, outbox>>

\* stop.wait(...) returns False: the timeout passed with the flag not set
WaitTimeout(t) ==
    /\ t \in DOMAIN threads
    /\ threads[t].pc = "wait"
    /\ threads[t].stop \notin stopset
    /\ threads' = [threads EXCEPT ![t].pc = "timeout"]
    /\ resp' = NoResp
    /\ UNCHANGED <<GAMES, AUTO, stopset, pending, down, lock, outbox>>

\* Mutant: after a signalled wait the loop goes round again
StopSignalled_continue(t) ==
    /\ t \in DOMAIN threads
    /\ threads[t].pc = "signalled"
    /\ threads' = [threads EXCEPT ![t].pc = "top"]
    /\ resp' = NoResp
    /\ UNCHANGED <<GAMES, AUTO, stopset, pending, down, outbox>>
    /\ lock' = {}

\* stop signaled, lines 129-131
StopSignalled(t) ==
    /\ t \in DOMAIN threads
    /\ threads[t].pc = "signalled"
    /\ AUTO' = Pop(AUTO, threads[t].gid)
    /\ threads' = [threads EXCEPT ![t].pc = "done"]
    /\ resp' = NoResp
    /\ UNCHANGED <<GAMES, stopset, pending, down, outbox>>
    /\ lock' = {}

\* Mutant: at exhaustion the loop goes round again instead of returning
AutoDraw_never_returns(t, n) ==
    /\ t \in DOMAIN threads
    /\ threads[t].pc = "timeout"
    /\ LET gid == threads[t].gid
       IN  IF gid \notin DOMAIN GAMES
           THEN /\ AUTO' = Pop(AUTO, gid)
                /\ threads' = [threads EXCEPT ![t].pc = "done"]
                /\ GAMES' = GAMES
           ELSE IF Len(GAMES[gid].draws) >= MaxNumber
           THEN /\ AUTO' = AUTO
                /\ threads' = [threads EXCEPT ![t].pc = "top"]
                /\ GAMES' = GAMES
           ELSE /\ n \in Range(remaining_numbers(GAMES[gid].draws))
                /\ GAMES' = [GAMES EXCEPT ![gid].draws = Append(@, n)]
                /\ threads' = [threads EXCEPT ![t].pc = "top"]
                /\ AUTO' = AUTO
    /\ resp' = NoResp
    /\ UNCHANGED <<stopset, pending, down, outbox>>
    /\ lock' = {}

\* Mutant: the thread returns after its first draw
AutoDraw_once(t, n) ==
    /\ t \in DOMAIN threads
    /\ threads[t].pc = "timeout"
    /\ LET gid == threads[t].gid
       IN  IF gid \notin DOMAIN GAMES \/ Len(GAMES[gid].draws) >= MaxNumber
           THEN /\ AUTO' = Pop(AUTO, gid)
                /\ threads' = [threads EXCEPT ![t].pc = "done"]
                /\ GAMES' = GAMES
           ELSE /\ n \in Range(remaining_numbers(GAMES[gid].draws))
                /\ GAMES' = [GAMES EXCEPT ![gid].draws = Append(@, n)]
                /\ threads' = [threads EXCEPT ![t].pc = "done"]
                /\ AUTO' = Pop(AUTO, gid)
    /\ resp' = NoResp
    /\ UNCHANGED <<stopset, pending, down, outbox>>
    /\ lock' = {}

\* Mutant: the number drawn is put at the head of the list
AutoDraw_at_head(t, n) ==
    /\ t \in DOMAIN threads
    /\ threads[t].pc = "timeout"
    /\ LET gid == threads[t].gid
       IN  IF gid \notin DOMAIN GAMES \/ Len(GAMES[gid].draws) >= MaxNumber
           THEN /\ AUTO' = Pop(AUTO, gid)
                /\ threads' = [threads EXCEPT ![t].pc = "done"]
                /\ GAMES' = GAMES
           ELSE /\ n \in Range(remaining_numbers(GAMES[gid].draws))
                /\ GAMES' = [GAMES EXCEPT ![gid].draws = <<n>> \o @]
                /\ threads' = [threads EXCEPT ![t].pc = "top"]
                /\ AUTO' = AUTO
    /\ resp' = NoResp
    /\ UNCHANGED <<stopset, pending, down, outbox>>
    /\ lock' = {}

\* Last block of the loop, lines 133-146; n is what random.choice returns
AutoDraw(t, n) ==
    /\ t \in DOMAIN threads
    /\ threads[t].pc = "timeout"
    /\ LET gid == threads[t].gid
       IN  IF gid \notin DOMAIN GAMES
           THEN /\ AUTO' = Pop(AUTO, gid)
                /\ threads' = [threads EXCEPT ![t].pc = "done"]
                /\ GAMES' = GAMES
           ELSE IF Len(GAMES[gid].draws) >= MaxNumber
           THEN /\ AUTO' = Pop(AUTO, gid)
                /\ threads' = [threads EXCEPT ![t].pc = "done"]
                /\ GAMES' = GAMES
           ELSE IF remaining_numbers(GAMES[gid].draws) = << >>
           THEN /\ AUTO' = Pop(AUTO, gid)
                /\ threads' = [threads EXCEPT ![t].pc = "done"]
                /\ GAMES' = GAMES
           ELSE /\ n \in Range(remaining_numbers(GAMES[gid].draws))
                /\ GAMES' = [GAMES EXCEPT ![gid].draws = Append(@, n)]
                /\ threads' = [threads EXCEPT ![t].pc = "top"]
                /\ AUTO' = AUTO
    /\ resp' = NoResp
    /\ UNCHANGED <<stopset, pending, down, outbox>>
    /\ lock' = {}

\* What the handler returns once its start/stop call is made (lines 261, 374)
Returned(call) ==
    IF call.op = "create"
    THEN Reply("create", call.gid, call.uid, "ok")
    ELSE [Reply("auto", call.gid, call.uid, "ok")
             EXCEPT !.on = call.on, !.interval = call.interval]

\* start_auto_draw, lines 149-158, made by create_game or set_auto_draw
start_auto_draw(call) ==
    /\ BagIn(call, pending)
    /\ call.on
    /\ IF call.gid \in DOMAIN AUTO
       THEN /\ AUTO' = [AUTO EXCEPT ![call.gid].interval = call.interval]
            /\ threads' = threads
       ELSE /\ Len(threads) < MaxThreads
            /\ AUTO' = AUTO @@ (call.gid :>
                          [stop     |-> Len(threads) + 1,
                           thread   |-> Len(threads) + 1,
                           interval |-> call.interval])
            /\ threads' = Append(threads,
                                 [gid |-> call.gid, pc |-> "top", stop |-> 0])
    /\ pending' = pending (-) SetToBag({call})
    /\ resp' = Returned(call)
    /\ UNCHANGED <<GAMES, stopset, down, outbox>>
    /\ lock' = {}

\* stop_auto_draw, lines 161-166, made by set_auto_draw
stop_auto_draw(call) ==
    /\ BagIn(call, pending)
    /\ ~call.on
    /\ stopset' = IF call.gid \in DOMAIN AUTO
                  THEN stopset \cup {AUTO[call.gid].stop}
                  ELSE stopset
    /\ pending' = pending (-) SetToBag({call})
    /\ resp' = Returned(call)
    /\ UNCHANGED <<GAMES, AUTO, threads, down, outbox>>
    /\ lock' = {}

\* Mutant: the table is cleared and no stop signal is set
stop_all_auto_clear_only ==
    /\ stopset' = stopset
    /\ AUTO' = << >>
    /\ down' = TRUE
    /\ resp' = Reply("shutdown", 0, 0, "ok")
    /\ UNCHANGED <<GAMES, threads, pending, outbox>>
    /\ lock' = {}

\* stop_all_auto, lines 169-174, run by the shutdown hook (lines 380-382).
\* Nothing in the program keeps a handler from running after it, or while a
\* handler is between its two blocks; `down` only records that it has run.
stop_all_auto ==
    /\ stopset' = stopset \cup {AUTO[g].stop : g \in DOMAIN AUTO}
    /\ AUTO' = << >>
    /\ down' = TRUE
    /\ resp' = Reply("shutdown", 0, 0, "ok")
    /\ UNCHANGED <<GAMES, threads, pending, outbox>>
    /\ lock' = {}

-----------------------------------------------------------------------------
(* Endpoints, main.py:237-374 *)

\* The token secrets.token_urlsafe(6) returns: one no game has yet
FreshGid == Cardinality(DOMAIN GAMES) + 1

\* create_game, first block (lines 240-258); the start_auto_draw call of line
\* 260 is left pending
create_game(host_id, host_name, cols) ==
    /\ Cardinality(DOMAIN GAMES) < MaxGames
    /\ BagCardinality(pending) < MaxPending
    /\ GAMES' = GAMES @@ (FreshGid :> NewGame(host_id, host_name, cols))
    /\ pending' = pending (+)
          SetToBag({Call("create", FreshGid, host_id, TRUE, DefaultInterval)})
    /\ resp' = NoResp
    /\ UNCHANGED <<AUTO, threads, stopset, down, outbox>>
    /\ lock' = {}

\* Mutant: > for >=
game_full_strict(players, user_id) ==
    Cardinality(DOMAIN players) > PlayerCap /\ user_id \notin DOMAIN players

\* len(g.players) >= 400 and req.user_id not in g.players, line 270
game_full(players, user_id) ==
    Cardinality(DOMAIN players) >= PlayerCap /\ user_id \notin DOMAIN players

\* Mutant: the player is stored whether or not the id is already there
joined_players_overwrite(players, user_id, name, cols) ==
    (user_id :> PlayerState(name, cols)) @@ players

\* lines 272-279
joined_players(players, user_id, name, cols) ==
    IF user_id \notin DOMAIN players
    THEN players @@ (user_id :> PlayerState(name, cols))
    ELSE players

\* Mutant: the player is stored first and the cap is checked afterwards
join_game_store_first(gid, user_id, name, cols) ==
    /\ IF gid \notin DOMAIN GAMES \/ GAMES[gid].closed
       THEN /\ resp' = Reply("join", gid, user_id, "NotFound")
            /\ GAMES' = GAMES
       ELSE /\ GAMES' = [GAMES EXCEPT
                            ![gid].players = joined_players(@, user_id, name, cols)]
            /\ resp' = Reply("join", gid, user_id,
                             IF Cardinality(DOMAIN GAMES'[gid].players) > PlayerCap
                             THEN "Forbidden" ELSE "ok")
    /\ UNCHANGED <<AUTO, threads, stopset, pending, down, outbox>>
    /\ lock' = {}

\* join_game, lines 264-280
join_game(gid, user_id, name, cols) ==
    /\ IF gid \notin DOMAIN GAMES \/ GAMES[gid].closed
       THEN /\ resp' = Reply("join", gid, user_id, "NotFound")
            /\ GAMES' = GAMES
       ELSE IF game_full(GAMES[gid].players, user_id)
       THEN /\ resp' = Reply("join", gid, user_id, "Forbidden")
            /\ GAMES' = GAMES
       ELSE /\ GAMES' = [GAMES EXCEPT
                            ![gid].players = joined_players(@, user_id, name, cols)]
            /\ resp' = Reply("join", gid, user_id, "ok")
    /\ UNCHANGED <<AUTO, threads, stopset, pending, down, outbox>>
    /\ lock' = {}

\* The dict of line 299 as the handler returns it: next_number, and under
\* "draws" the list object g.draws itself, to be read when it is serialised
Returned_draw(gid, user_id, n) == [gid |-> gid, uid |-> user_id, next_number |-> n]

\* The framework serialises a returned dict after the handler has left its
\* `with lock:` block: "draws" is read from the game's list as it is by then
Serialise(r) ==
    /\ r \in outbox
    /\ outbox' = outbox \ {r}
    /\ resp' = [Reply("draw_response", r.gid, r.uid, "ok") EXCEPT
                   !.next_number = r.next_number,
                   !.draws = GAMES[r.gid].draws]
    /\ UNCHANGED <<GAMES, AUTO, threads, stopset, pending, down, lock>>

\* Mutant: no check for exhaustion, and any number of 1..75 is appended
draw_number_unchecked(gid, user_id, n) ==
    /\ IF gid \notin DOMAIN GAMES \/ GAMES[gid].closed
       THEN /\ resp' = Reply("draw", gid, user_id, "NotFound")
            /\ GAMES' = GAMES
            /\ outbox' = outbox
       ELSE IF user_id # GAMES[gid].host_id
       THEN /\ resp' = Reply("draw", gid, user_id, "Forbidden")
            /\ GAMES' = GAMES
            /\ outbox' = outbox
       ELSE /\ n \in 1..MaxNumber
            /\ Cardinality(outbox) < MaxOutbox
            /\ GAMES' = [GAMES EXCEPT ![gid].draws = Append(@, n)]
            /\ resp' = [Reply("draw", gid, user_id, "ok") EXCEPT !.next_number = n]
            /\ outbox' = outbox \cup {Returned_draw(gid, user_id, n)}
    /\ UNCHANGED <<AUTO, threads, stopset, pending, down>>
    /\ lock' = {}

\* draw_number, lines 283-299; n is what random.choice returns
draw_number(gid, user_id, n) ==
    /\ IF gid \notin DOMAIN GAMES \/ GAMES[gid].closed
       THEN /\ resp' = Reply("draw", gid, user_id, "NotFound")
            /\ GAMES' = GAMES
            /\ outbox' = outbox
       ELSE IF user_id # GAMES[gid].host_id
       THEN /\ resp' = Reply("draw", gid, user_id, "Forbidden")
            /\ GAMES' = GAMES
            /\ outbox' = outbox
       ELSE IF Len(GAMES[gid].draws) >= MaxNumber
       THEN /\ resp' = Reply("draw", gid, user_id, "InvalidState")
            /\ GAMES' = GAMES
            /\ outbox' = outbox
       ELSE IF remaining_numbers(GAMES[gid].draws) = << >>
       THEN /\ resp' = Reply("draw", gid, user_id, "InvalidState")
            /\ GAMES' = GAMES
            /\ outbox' = outbox
       ELSE /\ n \in Range(remaining_numbers(GAMES[gid].draws))
            /\ Cardinality(outbox) < MaxOutbox
            /\ GAMES' = [GAMES EXCEPT ![gid].draws = Append(@, n)]
            /\ resp' = [Reply("draw", gid, user_id, "ok") EXCEPT !.next_number = n]
            /\ outbox' = outbox \cup {Returned_draw(gid, user_id, n)}
    /\ UNCHANGED <<AUTO, threads, stopset, pending, down>>
    /\ lock' = {}

\* Mutant: every cell is set as asked
marked_cell_as_asked(marks, index, marked) == [marks EXCEPT ![index] = marked]

\* lines 311-314: the FREE cell is pinned, any other is set as asked
marked_cell(marks, index, marked) ==
    IF index = FreeIndex
    THEN [marks EXCEPT ![FreeIndex] = TRUE]
    ELSE [marks EXCEPT ![index] = marked]

\* What mark_cell returns, with the request it answers
MarkReply(gid, user_id, index, marked, status) ==
    [Reply("mark", gid, user_id, status) EXCEPT !.index = index, !.marked = marked]

\* Mutant: a cell is marked only once its number has been drawn
mark_cell_if_drawn(gid, user_id, index, marked) ==
    /\ IF index < 0 \/ index > CardCells - 1
       THEN /\ resp' = MarkReply(gid, user_id, index, marked, "InvalidArgument")
            /\ GAMES' = GAMES
       ELSE IF gid \notin DOMAIN GAMES
       THEN /\ resp' = MarkReply(gid, user_id, index, marked, "NotFound")
            /\ GAMES' = GAMES
       ELSE IF user_id \notin DOMAIN GAMES[gid].players
       THEN /\ resp' = MarkReply(gid, user_id, index, marked, "NotFound")
            /\ GAMES' = GAMES
       ELSE /\ GAMES' = [GAMES EXCEPT ![gid].players[user_id].marks =
                            IF marked /\ GAMES[gid].players[user_id].card[index]
                                            \notin Range(GAMES[gid].draws)
                            THEN marked_cell(@, index, FALSE)
                            ELSE marked_cell(@, index, marked)]
            /\ resp' = MarkReply(gid, user_id, index, marked, "ok")
    /\ UNCHANGED <<AUTO, threads, stopset, pending, down, outbox>>
    /\ lock' = {}

\* mark_cell, lines 302-315; MarkReq.index is Field(ge=0, le=24), line 214
mark_cell(gid, user_id, index, marked) ==
    /\ IF index < 0 \/ index > CardCells - 1
       THEN /\ resp' = MarkReply(gid, user_id, index, marked, "InvalidArgument")
            /\ GAMES' = GAMES
       ELSE IF gid \notin DOMAIN GAMES
       THEN /\ resp' = MarkReply(gid, user_id, index, marked, "NotFound")
            /\ GAMES' = GAMES
       ELSE IF user_id \notin DOMAIN GAMES[gid].players
       THEN /\ resp' = MarkReply(gid, user_id, index, marked, "NotFound")
            /\ GAMES' = GAMES
       ELSE /\ GAMES' = [GAMES EXCEPT ![gid].players[user_id].marks =
                                          marked_cell(@, index, marked)]
            /\ resp' = MarkReply(gid, user_id, index, marked, "ok")
    /\ UNCHANGED <<AUTO, threads, stopset, pending, down, outbox>>
    /\ lock' = {}

\* lines 341 and 354
has_bingo(p, draws) ==
    marked_cells_are_valid(p.card, p.marks, draws) /\ check_line_bingo(p.marks)

\* get_state, lines 318-342: reads only; has_bingo is returned in `valid`
get_state(gid, user_id) ==
    /\ resp' =
          IF gid \notin DOMAIN GAMES
          THEN Reply("state", gid, user_id, "NotFound")
          ELSE [Reply("state", gid, user_id, "ok") EXCEPT !.valid =
                   /\ user_id \in DOMAIN GAMES[gid].players
                   /\ has_bingo(GAMES[gid].players[user_id], GAMES[gid].draws)]
    /\ UNCHANGED <<GAMES, AUTO, threads, stopset, pending, down, outbox>>
    /\ lock' = {}

\* Mutant: a valid claim is appended without looking at the list
claimed_winners_append(winner_ids, user_id, valid) ==
    IF valid THEN Append(winner_ids, user_id) ELSE winner_ids

\* lines 355-356
claimed_winners(winner_ids, user_id, valid) ==
    IF valid /\ user_id \notin Range(winner_ids)
    THEN Append(winner_ids, user_id)
    ELSE winner_ids

\* claim_bingo, lines 345-358
claim_bingo(gid, user_id) ==
    /\ IF gid \notin DOMAIN GAMES \/ GAMES[gid].closed
       THEN /\ resp' = Reply("claim", gid, user_id, "NotFound")
            /\ GAMES' = GAMES
       ELSE IF user_id \notin DOMAIN GAMES[gid].players
       THEN /\ resp' = Reply("claim", gid, user_id, "NotFound")
            /\ GAMES' = GAMES
       ELSE LET valid == has_bingo(GAMES[gid].players[user_id], GAMES[gid].draws)
            IN  /\ GAMES' = [GAMES EXCEPT ![gid].winner_ids =
                                             claimed_winners(@, user_id, valid)]
                /\ resp' = [Reply("claim", gid, user_id, "ok") EXCEPT !.valid = valid]
    /\ UNCHANGED <<AUTO, threads, stopset, pending, down, outbox>>
    /\ lock' = {}

\* Mutant: the caller is not compared with the host
set_auto_draw_any_caller(gid, user_id, on, interval) ==
    /\ IF interval < MinInterval \/ interval > MaxInterval
       THEN /\ resp' = [Reply("auto", gid, user_id, "InvalidArgument")
                           EXCEPT !.on = on, !.interval = interval]
            /\ pending' = pending
       ELSE IF gid \notin DOMAIN GAMES
       THEN /\ resp' = [Reply("auto", gid, user_id, "NotFound")
                           EXCEPT !.on = on, !.interval = interval]
            /\ pending' = pending
       ELSE /\ BagCardinality(pending) < MaxPending
            /\ pending' = pending (+)
                  SetToBag({Call("auto", gid, user_id, on, interval)})
            /\ resp' = NoResp
    /\ UNCHANGED <<GAMES, AUTO, threads, stopset, down, outbox>>
    /\ lock' = {}

\* set_auto_draw, first block (lines 364-369); AutoReq.interval is
\* Field(5, ge=2, le=60), line 231.  The call of lines 370-373 is left pending.
set_auto_draw(gid, user_id, on, interval) ==
    /\ IF interval < MinInterval \/ interval > MaxInterval
       THEN /\ resp' = [Reply("auto", gid, user_id, "InvalidArgument")
                           EXCEPT !.on = on, !.interval = interval]
            /\ pending' = pending
       ELSE IF gid \notin DOMAIN GAMES
       THEN /\ resp' = [Reply("auto", gid, user_id, "NotFound")
                           EXCEPT !.on = on, !.interval = interval]
            /\ pending' = pending
       ELSE IF user_id # GAMES[gid].host_id
       THEN /\ resp' = [Reply("auto", gid, user_id, "Forbidden")
                           EXCEPT !.on = on, !.interval = interval]
            /\ pending' = pending
       ELSE /\ BagCardinality(pending) < MaxPending
            /\ pending' = pending (+)
                  SetToBag({Call("auto", gid, user_id, on, interval)})
            /\ resp' = NoResp
    /\ UNCHANGED <<GAMES, AUTO, threads, stopset, down, outbox>>
    /\ lock' = {}

-----------------------------------------------------------------------------
(* Inputs *)

\* display names, as sequences of characters: a short one, and one of 65
ShortName == <<1, 2>>
LongName == [i \in 1..(NameCap + 1) |-> 3]
\* outcomes of the five shuffles of make_card: ascending and descending columns
ColsA == [c \in 0..4 |-> [r \in 0..4 |-> 1 + c * ColumnWidth + r]]
ColsB == [c \in 0..4 |-> [r \in 0..4 |-> ColumnWidth + c * ColumnWidth - r]]

\* game ids a request may name
GidInputs == 1..MaxGames
\* user ids: 1 creates the games, 2 is another caller
HostInputs == {1}
UserInputs == {1, 2}
\* create_game is called with the long name and gets the ascending card;
\* join_game is called with the short name and gets the descending card
HostNameInputs == {LongName}
HostShuffleInputs == {ColsA}
NameInputs == {ShortName}
ShuffleInputs == {ColsB}
\* cell indexes: the last cell of the middle column, the FREE cell, one off
\* the card
IndexInputs == {22, FreeIndex, CardCells}
\* numbers random.choice may return: the value of cell 22 of the ascending
\* card, and the largest number
DrawInputs == {35, MaxNumber}
\* intervals: one in range and not the default, one out of range
IntervalInputs == {MinInterval, MaxInterval + 1}

\* The second lock block of create_game and set_auto_draw, and stop_all_auto
Control ==
    \/ \E call \in BagToSet(pending) : start_auto_draw(call)
    \/ \E call \in BagToSet(pending) : stop_auto_draw(call)
    \/ stop_all_auto

\* The requests about drawing: manual draws and auto-draw on and off, by the
\* host and by another caller
HostRequests ==
    \/ \E g \in GidInputs, u \in UserInputs, n \in DrawInputs :
          draw_number(g, u, n)
    \/ \E g \in GidInputs, u \in UserInputs, on \in BOOLEAN, iv \in IntervalInputs :
          set_auto_draw(g, u, on, iv)

\* The requests about playing: joining, marking, reading the state and
\* claiming, while the host draws
PlayerRequests ==
    \/ \E g \in GidInputs, u \in UserInputs, nm \in NameInputs, cols \in ShuffleInputs :
          IsShuffle(cols) /\ join_game(g, u, nm, cols)
    \/ \E g \in GidInputs, u \in HostInputs, n \in DrawInputs :
          draw_number(g, u, n)
    \/ \E g \in GidInputs, u \in UserInputs, i \in IndexInputs, m \in BOOLEAN :
          mark_cell(g, u, i, m)
    \/ \E g \in GidInputs, u \in UserInputs : get_state(g, u)
    \/ \E g \in GidInputs, u \in UserInputs : claim_bingo(g, u)

\* The host switches auto-draw off
HostOff ==
    \E g \in GidInputs, u \in HostInputs : set_auto_draw(g, u, FALSE, MinInterval)

\* The host switches auto-draw on and off
HostSwitch ==
    \E g \in GidInputs, u \in HostInputs, on \in BOOLEAN :
        set_auto_draw(g, u, on, MinInterval)

Scheduler ==
    \/ \E t \in DOMAIN threads : LoopTop(t)
    \/ \E t \in DOMAIN threads : WaitSignalled(t)
    \/ \E t \in DOMAIN threads : WaitTimeout(t)
    \/ \E t \in DOMAIN threads : StopSignalled(t)
    \/ \E t \in DOMAIN threads, n \in DrawInputs : AutoDraw(t, n)

Delivery == \E r \in outbox : Serialise(r)

Creation ==
    \E h \in HostInputs, nm \in HostNameInputs, cols \in HostShuffleInputs :
        IsShuffle(cols) /\ create_game(h, nm, cols)

-----------------------------------------------------------------------------
(* The program from its start.  The scheduler threads, stop_all_auto and   *)
(* create_game run in both specifications; Spec takes the requests about   *)
(* drawing with them, SpecPlay the requests about playing, with the host   *)
(* switching off the scheduler that create_game has started.               *)

Next == Creation \/ HostRequests \/ Delivery \/ Control \/ Scheduler

Spec == Init /\ [][Next]_vars

NextPlay == Creation \/ PlayerRequests \/ HostOff \/ Delivery \/ Control \/ Scheduler

SpecPlay == Init /\ [][NextPlay]_vars

-----------------------------------------------------------------------------
(* The program late in a game.  InitLate is the state the program is in     *)
(* after: create_game(1, LongName) dealing the ascending card; the         *)
(* scheduler started and then stopped by set_auto_draw(on=false) before    *)
(* its first draw; 73 manual draws that happened to come in ascending      *)
(* order, leaving exactly DrawInputs undrawn; and the host marking cells   *)
(* 2, 7 and 17 of the middle column.  From there random.choice can return  *)
(* nothing but a number of DrawInputs, so the draws of this specification  *)
(* are all the draws the program can make.                                 *)

LateDraws ==
    LET Early(n) == n \notin DrawInputs
    IN  SelectSeq([n \in 1..MaxNumber |-> n], Early)

LateMarks == [i \in 0..(CardCells - 1) |-> i \in {2, 7, FreeIndex, 17}]

StoppedThread == [gid |-> 1, pc |-> "done", stop |-> 1]

LateGame ==
    [NewGame(1, LongName, ColsA) EXCEPT
        !.draws = LateDraws, !.players[1].marks = LateMarks]

InitLate ==
    /\ GAMES = (1 :> LateGame)
    /\ AUTO = << >>
    /\ threads = <<StoppedThread>>
    /\ stopset = {1}
    /\ pending = EmptyBag
    /\ down = FALSE
    /\ lock = {}
    /\ outbox = {}
    /\ resp = NoResp

NextLate == HostRequests \/ Delivery \/ Control \/ Scheduler

SpecLate == InitLate /\ [][NextLate]_vars

NextLatePlay == PlayerRequests \/ HostSwitch \/ Delivery \/ Control \/ Scheduler

SpecLatePlay == InitLate /\ [][NextLatePlay]_vars

-----------------------------------------------------------------------------
(* The program with a game one player short of the cap and one draw short  *)
(* of exhaustion.  InitFull is the state after create_game(1, LongName),   *)
(* the scheduler started and stopped as above, 398 further users (ids      *)
(* 4..401) joining, and 74 manual draws that came in ascending order.      *)

FillerIds == 4..(PlayerCap + 1)

FullDraws == [n \in 1..(MaxNumber - 1) |-> n]

FullGame ==
    [NewGame(1, LongName, ColsA) EXCEPT
        !.draws = FullDraws,
        !.players = @ @@ [u \in FillerIds |-> PlayerState(ShortName, ColsB)]]

InitFull ==
    /\ GAMES = (1 :> FullGame)
    /\ AUTO = << >>
    /\ threads = <<StoppedThread>>
    /\ stopset = {1}
    /\ pending = EmptyBag
    /\ down = FALSE
    /\ lock = {}
    /\ outbox = {}
    /\ resp = NoResp

\* The requests of this specification: users 2 and 3 are not in the game, game
\* 2 does not exist, index 25 is off the card, and the one number left is 75
FullRequests ==
    \/ \E g \in 1..(MaxGames + 1), u \in {1, 2, 3} :
          IsShuffle(ColsB) /\ join_game(g, u, ShortName, ColsB)
    \/ \E u \in {1, 2} : draw_number(1, u, MaxNumber)
    \/ \E u \in {1, 2}, i \in {FreeIndex, CardCells} :
          mark_cell(1, u, i, FALSE)
    \/ \E u \in {1, 2} : get_state(1, u)
    \/ \E u \in {1, 2} : claim_bingo(1, u)
    \/ \E u \in {1, 2}, on \in BOOLEAN :
          set_auto_draw(1, u, on, MinInterval)

NextFull == FullRequests \/ Delivery \/ Control \/ Scheduler

SpecFull == InitFull /\ [][NextFull]_vars

-----------------------------------------------------------------------------
(* The scheduler under fair scheduling.  A started thread is scheduled again *)
(* and again by the operating system, the lock it asks for is released by   *)
(* every holder after finitely many instructions, and its timed wait ends   *)
(* after max(2, interval) seconds at the latest: each thread keeps taking   *)
(* its next step.  Nothing obliges a client to send a request.  The start   *)
(* is InitLate, so that random.choice returns nothing but DrawInputs.       *)

\* The next step of thread t, whichever it is
ThreadStep(t) ==
    \/ LoopTop(t)
    \/ WaitSignalled(t)
    \/ WaitTimeout(t)
    \/ StopSignalled(t)
    \/ \E n \in DrawInputs : AutoDraw(t, n)

\* The requests of this specification: the host draws, the host and user 2
\* ask for auto-draw on and off
LiveRequests ==
    \/ \E n \in DrawInputs : draw_number(1, 1, n)
    \/ \E u \in UserInputs, on \in BOOLEAN :
          set_auto_draw(1, u, on, MinInterval)

NextLive == LiveRequests \/ Delivery \/ Control \/ Scheduler

SpecLive ==
    /\ InitLate
    /\ [][NextLive]_vars
    /\ \A t \in 1..MaxThreads : WF_vars(ThreadStep(t))

-----------------------------------------------------------------------------
(* The lock made explicit.  In the specifications above a `with lock:`     *)
(* block is entered, run and left in one step, which is why every action   *)
(* that models a block ends with lock' = {}.  Here the entry is a step of   *)
(* its own: a task takes the lock when no task holds it (threading.Lock),   *)
(* and the block is the step of the task that holds it.  The tasks are the  *)
(* scheduler threads 1..MaxThreads and the server's worker threads.         *)

Workers == (MaxThreads + 1)..(MaxThreads + MaxWorkers)

\* `with lock:` entered, by a scheduler thread about to run one of its three
\* blocks or by a worker running a handler
Acquire(k) ==
    /\ lock = {}
    /\ \/ /\ k \in DOMAIN threads
          /\ threads[k].pc \in {"top", "signalled", "timeout"}
       \/ k \in Workers
    /\ lock' = {k}
    /\ resp' = NoResp
    /\ UNCHANGED <<GAMES, AUTO, threads, stopset, pending, down, outbox>>

\* A block of the scheduler loop, run by the thread that holds the lock
LockedThreadStep(t) ==
    /\ t \in lock
    /\ \/ LoopTop(t)
       \/ StopSignalled(t)
       \/ \E n \in DrawInputs : AutoDraw(t, n)

\* A handler's block, or the shutdown hook's, run by the worker that holds
\* the lock
LockedRequest(w) ==
    /\ w \in lock
    /\ LiveRequests \/ Control

NextLock ==
    \/ \E k \in (1..MaxThreads) \cup Workers : Acquire(k)
    \/ \E t \in 1..MaxThreads : LockedThreadStep(t)
    \/ \E w \in Workers : LockedRequest(w)
    \/ \E t \in DOMAIN threads : WaitSignalled(t)
    \/ \E t \in DOMAIN threads : WaitTimeout(t)
    \/ Delivery

SpecLock == InitLate /\ [][NextLock]_vars

-----------------------------------------------------------------------------------------------------------------------------------------------------
(* Properties *)

NoRepeat(seq) == Cardinality(Range(seq)) = Len(seq)

\* C1: in every reachable state, whatever the interleaving of host draws and
\* scheduler draws, each game's draw sequence holds only values of 1..75 and
\* none twice; and the number a successful DrawNumber has just returned is
\* the last of the sequence and occurs nowhere before it.
C1_DrawsDistinct ==
    /\ \A g \in DOMAIN GAMES :
          /\ Range(GAMES[g].draws) \subseteq 1..75
          /\ NoRepeat(GAMES[g].draws)
    /\ (resp.op = "draw" /\ resp.status = "ok") =>
          LET d == GAMES[resp.gid].draws
          IN  /\ Len(d) > 0
              /\ d[Len(d)] = resp.next_number
              /\ \A i \in 1..(Len(d) - 1) : d[i] # resp.next_number

\* A host draw has just taken the last number while a scheduler thread, its
\* wait timed out, is about to draw too
C1_Witness ==
    /\ resp.op = "draw" /\ resp.status = "ok"
    /\ Len(GAMES[resp.gid].draws) = 75
    /\ \E t \in DOMAIN threads :
          threads[t].gid = resp.gid /\ threads[t].pc = "timeout"

\* C2: once a successful SetAutoDraw(on=true, interval=i) by the host has
\* returned, the game has a control entry with interval i and a running
\* scheduler thread with no pending stop signal.
C2_StartedOrRetuned ==
    (resp.op = "auto" /\ resp.status = "ok" /\ resp.on) =>
        /\ resp.gid \in DOMAIN AUTO
        /\ AUTO[resp.gid].interval = resp.interval
        /\ AUTO[resp.gid].stop \notin stopset
        /\ threads[AUTO[resp.gid].thread].pc # "done"

\* C3: no draw sequence is ever longer than 75; and a step taken when a game
\* has 75 numbers drawn leaves its draw sequence as it is, a DrawNumber on
\* that game failing, with InvalidState when the caller is the host.
C3_ExhaustedDrawFails ==
    /\ [](\A g \in DOMAIN GAMES : Len(GAMES[g].draws) <= 75)
    /\ [][\A g \in DOMAIN GAMES :
            Len(GAMES[g].draws) >= 75 =>
               /\ GAMES'[g].draws = GAMES[g].draws
               /\ (resp'.op = "draw" /\ resp'.gid = g) =>
                     /\ resp'.status \in Errors
                     /\ resp'.uid = GAMES[g].host_id =>
                           resp'.status = "InvalidState"]_vars

\* The host's DrawNumber on an exhausted game has failed
C3_Witness ==
    /\ resp.op = "draw" /\ resp.status = "InvalidState"
    /\ Len(GAMES[resp.gid].draws) = 75

\* C4: a step in which JoinGame, DrawNumber, MarkCell, GetState, ClaimBingo
\* or SetAutoDraw returns an error leaves the game registry and the control
\* table, stop signals included, exactly as they were.
C4_ErrorsChangeNothing ==
    [][resp'.status \in Errors =>
          /\ GAMES' = GAMES
          /\ AUTO' = AUTO
          /\ stopset' = stopset]_vars

\* JoinGame has been refused at the cap while the game's scheduler is active
C4_Witness ==
    /\ resp.op = "join" /\ resp.status = "Forbidden"
    /\ resp.gid \in DOMAIN AUTO

\* C5: a well-formed DrawNumber or SetAutoDraw on an existing game by a caller
\* who is not its host returns Forbidden, and the step changes neither the
\* registry nor the scheduler: no draw, no control entry started, retuned or
\* signalled, no thread started, no start or stop left to be made.
C5_HostOnly ==
    [][(/\ resp'.op \in {"draw", "auto"}
        /\ resp'.gid \in DOMAIN GAMES
        /\ resp'.uid # GAMES[resp'.gid].host_id
        /\ resp'.op = "auto" => resp'.interval \in 2..60)
       => /\ resp'.status = "Forbidden"
          /\ UNCHANGED <<GAMES, AUTO, threads, stopset, pending>>]_vars

\* SetAutoDraw(on=true) by a non-host has been refused while the scheduler runs
C5_Witness ==
    /\ resp.op = "auto" /\ resp.status = "Forbidden" /\ resp.on
    /\ resp.gid \in DOMAIN AUTO
    /\ resp.uid # GAMES[resp.gid].host_id

\* The 12 lines of a card: 5 rows, 5 columns, 2 diagonals
TwelveLines ==
    {{0, 1, 2, 3, 4}, {5, 6, 7, 8, 9}, {10, 11, 12, 13, 14},
     {15, 16, 17, 18, 19}, {20, 21, 22, 23, 24},
     {0, 5, 10, 15, 20}, {1, 6, 11, 16, 21}, {2, 7, 12, 17, 22},
     {3, 8, 13, 18, 23}, {4, 9, 14, 19, 24},
     {0, 6, 12, 18, 24}, {4, 8, 12, 16, 20}}

\* The win condition as the specification words it
WinCondition(p, draws) ==
    /\ \E line \in TwelveLines : \A i \in line : p.marks[i]
    /\ \A i \in (0..24) \ {12} : p.marks[i] => p.card[i] \in Range(draws)

\* C6: ClaimBingo by a player of an existing game returns valid = true exactly
\* when, in the state it is made in, the player's marks contain one of the 12
\* lines and every marked non-free cell's value has been drawn; then the
\* caller is appended to the winner list unless already in it and nothing else
\* changes, and a claim returning valid = false changes nothing in the registry.
C6_ClaimValidIffWin ==
    [][(resp'.op = "claim" /\ resp'.status = "ok") =>
          LET g == GAMES[resp'.gid]
              win == WinCondition(g.players[resp'.uid], g.draws)
          IN  /\ resp'.valid = win
              /\ win => GAMES' = [GAMES EXCEPT ![resp'.gid].winner_ids =
                                    IF resp'.uid \in Range(@) THEN @
                                    ELSE Append(@, resp'.uid)]
              /\ ~win => GAMES' = GAMES]_vars

\* A claim has been found valid and its caller is the one winner
C6_Witness ==
    /\ resp.op = "claim" /\ resp.status = "ok" /\ resp.valid
    /\ GAMES[resp.gid].winner_ids = <<resp.uid>>

\* C7: in every reachable state a game's winner list holds each player id at
\* most once.
C7_WinnersDistinct ==
    \A g \in DOMAIN GAMES : NoRepeat(GAMES[g].winner_ids)

\* A valid claim has been answered for a player who is a recorded winner, all
\* 75 numbers drawn
C7_Witness ==
    /\ resp.op = "claim" /\ resp.valid
    /\ resp.uid \in Range(GAMES[resp.gid].winner_ids)
    /\ Len(GAMES[resp.gid].draws) = 75

\* C8: in every reachable state marks[12] is true for every player of every
\* game.
C8_FreeCellMarked ==
    \A g \in DOMAIN GAMES :
        \A u \in DOMAIN GAMES[g].players : GAMES[g].players[u].marks[12]

\* MarkCell(index=12, marked=false) has succeeded
C8_Witness ==
    /\ resp.op = "mark" /\ resp.status = "ok"
    /\ resp.index = 12 /\ ~resp.marked

\* C9: JoinGame with a user id already in the game succeeds and leaves the
\* whole registry unchanged; and no step removes a player or changes a
\* player's card.
C9_JoinIdempotent ==
    [][/\ (/\ resp'.op = "join"
           /\ resp'.gid \in DOMAIN GAMES
           /\ resp'.uid \in DOMAIN GAMES[resp'.gid].players)
          => (resp'.status = "ok" /\ GAMES' = GAMES)
       /\ \A g \in DOMAIN GAMES : \A u \in DOMAIN GAMES[g].players :
             /\ g \in DOMAIN GAMES'
             /\ u \in DOMAIN GAMES'[g].players
             /\ GAMES'[g].players[u].card = GAMES[g].players[u].card]_vars

\* The host, a player since the game was created, has joined again, with
\* another player in the game
C9_Witness ==
    /\ resp.op = "join" /\ resp.status = "ok"
    /\ resp.uid = GAMES[resp.gid].host_id
    /\ DOMAIN GAMES[resp.gid].players = {1, 2}

\* C10: no game ever has more than 400 players; JoinGame by a user id not in a
\* game that has 400 players returns Forbidden and changes nothing; JoinGame on
\* an existing game by a user id already in it succeeds.
C10_PlayerCap ==
    /\ [](\A g \in DOMAIN GAMES : Cardinality(DOMAIN GAMES[g].players) <= 400)
    /\ [][(resp'.op = "join" /\ resp'.gid \in DOMAIN GAMES) =>
            LET ps == DOMAIN GAMES[resp'.gid].players
            IN  /\ (Cardinality(ps) >= 400 /\ resp'.uid \notin ps) =>
                      (resp'.status = "Forbidden" /\ GAMES' = GAMES)
                /\ resp'.uid \in ps => resp'.status = "ok"]_vars

\* The 401st distinct user has been refused by a game of 400 players
C10_Witness ==
    /\ resp.op = "join" /\ resp.status = "Forbidden"
    /\ Cardinality(DOMAIN GAMES[resp.gid].players) = 400
    /\ resp.uid \notin DOMAIN GAMES[resp.gid].players

\* C11: MarkCell with an index of 0..24 other than 12, by a player of an
\* existing game, succeeds and sets that player's marks[index] to the value
\* asked for, whether or not the cell's number has been drawn; nothing else in
\* the registry changes (other marks, cards, other players, draws, winners),
\* and the scheduler's state is left alone.
C11_MarkSetsOneCell ==
    [][(/\ resp'.op = "mark"
        /\ resp'.gid \in DOMAIN GAMES
        /\ resp'.uid \in DOMAIN GAMES[resp'.gid].players
        /\ resp'.index \in (0..24) \ {12})
       => /\ resp'.status = "ok"
          /\ GAMES' = [GAMES EXCEPT
                ![resp'.gid].players[resp'.uid].marks[resp'.index] = resp'.marked]
          /\ UNCHANGED <<AUTO, threads, stopset, pending>>]_vars

\* A player has marked a cell whose number is not among the numbers drawn so
\* far, in a game of two players
C11_Witness ==
    /\ resp.op = "mark" /\ resp.status = "ok"
    /\ resp.index # 12 /\ resp.marked
    /\ LET g == GAMES[resp.gid]
       IN  /\ Len(g.draws) > 0
           /\ g.players[resp.uid].card[resp.index] \notin Range(g.draws)
           /\ g.players[resp.uid].marks[resp.index]
           /\ Cardinality(DOMAIN g.players) = 2

\* C12: in every step, of a request or of a scheduler thread, every game stays
\* in the registry and its previous draw sequence is a prefix of its new one;
\* a game that enters the registry has no draws.
C12_DrawsAppendOnly ==
    [][/\ \A g \in DOMAIN GAMES :
             /\ g \in DOMAIN GAMES'
             /\ Len(GAMES'[g].draws) >= Len(GAMES[g].draws)
             /\ SubSeq(GAMES'[g].draws, 1, Len(GAMES[g].draws)) = GAMES[g].draws
       /\ \A g \in DOMAIN GAMES' \ DOMAIN GAMES : GAMES'[g].draws = << >>]_vars

\* The host has drawn a second number after a first one
C12_Witness ==
    /\ resp.op = "draw" /\ resp.status = "ok"
    /\ Len(GAMES[resp.gid].draws) = 2
    /\ GAMES[resp.gid].draws[2] = resp.next_number

\* The scheduler threads of game g that have not returned
LiveThreads(g) ==
    {t \in DOMAIN threads : threads[t].gid = g /\ threads[t].pc # "done"}

\* C13: in every reachable state, after whatever interleaving of CreateGame,
\* SetAutoDraw(on/off), scheduler steps and the shutdown hook, a game has at
\* most one scheduler thread that has not returned; and a successful
\* SetAutoDraw(on=true) whose start finds a control entry for the game starts
\* no thread and changes nothing of the entry but its interval.
C13_OneSchedulerPerGame ==
    /\ [](\A g \in DOMAIN GAMES : Cardinality(LiveThreads(g)) <= 1)
    /\ [][(/\ resp'.op = "auto" /\ resp'.status = "ok" /\ resp'.on
            /\ resp'.gid \in DOMAIN AUTO)
           => /\ threads' = threads
              /\ AUTO' = [AUTO EXCEPT ![resp'.gid].interval = resp'.interval]]_vars

\* Thread t has returned and the control table has no entry of it
Terminated(t) ==
    /\ t \in DOMAIN threads
    /\ threads[t].pc = "done"
    /\ \A g \in DOMAIN AUTO : AUTO[g].thread # t

\* C14: under fair scheduling of the scheduler threads, whenever a successful
\* SetAutoDraw(on=false) has set the stop signal of a game's scheduler, that
\* scheduler thread eventually has returned and its control entry is removed.
C14_StopTerminates ==
    \A t \in 1..MaxThreads :
        (/\ resp.op = "auto" /\ resp.status = "ok" /\ ~resp.on
         /\ resp.gid \in DOMAIN AUTO
         /\ AUTO[resp.gid].thread = t
         /\ AUTO[resp.gid].stop \in stopset)
        ~> Terminated(t)

\* SetAutoDraw(on=false) has signalled a scheduler that is in its timed wait
C14_Witness ==
    /\ resp.op = "auto" /\ resp.status = "ok" /\ ~resp.on
    /\ resp.gid \in DOMAIN AUTO
    /\ AUTO[resp.gid].stop \in stopset
    /\ threads[AUTO[resp.gid].thread].pc = "wait"

\* C15: under fair scheduling, a scheduler thread that is running while its
\* game has 75 numbers drawn eventually has returned with its control entry
\* removed; and no step appends to a draw sequence of 75.
C15_ExhaustedSchedulerEnds ==
    /\ \A t \in 1..MaxThreads :
          (/\ t \in DOMAIN threads
           /\ threads[t].pc # "done"
           /\ Len(GAMES[threads[t].gid].draws) = 75)
          ~> Terminated(t)
    /\ [][\A g \in DOMAIN GAMES :
            Len(GAMES[g].draws) = 75 => GAMES'[g].draws = GAMES[g].draws]_vars

\* The game is exhausted while its scheduler, not signalled, is in its wait
C15_Witness ==
    \E g \in DOMAIN AUTO :
        /\ Len(GAMES[g].draws) = 75
        /\ AUTO[g].stop \notin stopset
        /\ threads[AUTO[g].thread].pc = "wait"

\* C16: under fair scheduling, if the stop signal of a scheduler thread is
\* never set and the server never shuts down, then once the thread runs its
\* game eventually has all 75 numbers drawn.  (The stop Event of thread t is
\* Event t: start_auto_draw creates the two together.)
C16_SchedulerExhausts ==
    \A t \in 1..MaxThreads :
        [](t \notin stopset /\ ~down)
        => ((t \in DOMAIN threads /\ threads[t].pc # "done")
            ~> (t \in DOMAIN threads /\ Len(GAMES[threads[t].gid].draws) = 75))

\* A scheduler that was never signalled has returned, all 75 numbers drawn
C16_Witness ==
    \E t \in DOMAIN threads :
        /\ t \notin stopset /\ ~down
        /\ threads[t].pc = "done"
        /\ Len(GAMES[threads[t].gid].draws) = 75

\* C18: the shutdown hook sets the stop signal of every entry the control
\* table holds at that moment and leaves the table empty; and under fair
\* scheduling, once the server has shut down every scheduler thread
\* eventually has returned.
C18_ShutdownStopsAll ==
    /\ [][resp'.op = "shutdown" =>
            /\ AUTO' = << >>
            /\ \A g \in DOMAIN AUTO : AUTO[g].stop \in stopset']_vars
    /\ down ~> (\A t \in DOMAIN threads : threads[t].pc = "done")

\* The shutdown hook has just signalled a scheduler that is in its timed wait
C18_Witness ==
    /\ resp.op = "shutdown"
    /\ AUTO = << >>
    /\ \E t \in DOMAIN threads :
          /\ threads[t].pc = "wait"
          /\ threads[t].stop \in stopset
          /\ t # 1

\* C17: at most one task holds the lock; a step that changes the game
\* registry or the control table is taken by the task that holds the lock
\* (the scheduler thread whose position changes, or else a worker) and ends
\* with the lock released; and a scheduler thread in its timed wait does not
\* hold the lock.
C17_LockDiscipline ==
    /\ [](Cardinality(lock) <= 1)
    /\ [](\A t \in DOMAIN threads : threads[t].pc = "wait" => t \notin lock)
    /\ [][(GAMES' # GAMES \/ AUTO' # AUTO) =>
            /\ lock # {}
            /\ lock' = {}
            /\ \A t \in DOMAIN threads : threads'[t] # threads[t] => lock = {t}
            /\ (\A t \in DOMAIN threads : threads'[t] = threads[t])
                  => lock \subseteq Workers]_vars

\* A worker holds the lock, a handler about to run, while a scheduler thread
\* is in its timed wait
C17_Witness ==
    /\ lock \subseteq Workers /\ lock # {}
    /\ \E t \in DOMAIN threads : threads[t].pc = "wait"

C20_ResponseEndsWithOwnNumber ==
    resp.op = "draw_response" =>
        /\ Len(resp.draws) > 0
        /\ resp.draws[Len(resp.draws)] = resp.next_number

=============================================================================
